---- MODULE Spec2Model ----
(***************************************************************************)
(* Model of update_checker.py: the DNF update query (dnf_check_updates),   *)
(* the upgrade runner (dnf_upgrade, safe_wrapper) and the Application      *)
(* orchestrator with its GLib main loop, timer, idle queue and worker      *)
(* threads.                                                                *)
(*                                                                         *)
(* Python str values are TLA+ strings; Len, SubSeq and \o act on them      *)
(* character by character.  A field that holds an object or None is an     *)
(* optional value: Nothing for None, Some(x) for the object x.  A str or   *)
(* None is the str or "None"; a thread reference is the thread's index in  *)
(* creation order, NoThread for None.                                      *)
(***************************************************************************)
EXTENDS Integers, Sequences, FiniteSets, TLC

VARIABLES
    \* ---- Application fields (update_checker.py:117-132)
    all_updates, normal_terminal, no_safe,
    worker_check_thread, worker_upgrade_thread,
    notification, updates, updates_nr, security_updates_nr,
    visible, icon, menu,
    \* ---- runtime around the Application
    checks,      \* the Thread objects created by on_timer, in creation order
    upgrades,    \* the Thread objects created by upgrade, in creation order
    idle,        \* callbacks posted with GLib.idle_add, not yet dispatched
    timer,       \* TRUE while the GLib timeout source of on_timer is installed
    main,        \* the main thread: "running" (in the main loop, between callbacks),
                 \* "found_updates:176" and "found_updates:180" (in found_updates,
                 \* about to run that line), "joining" (in on_menu_close), "quit"
    popup,       \* the menu currently popped up by on_menu, or None
    capacity,    \* the number of worker threads this run may start in all
    \* ---- one call of dnf_check_updates on a given stdout (ParseSpec)
    p_lines, p_pc, p_result, p_total, p_security,
    \* ---- one call of dnf_upgrade with given arguments (UpgradeSpec)
    u_pc, u_normal, u_packages, u_nosafe, u_command

appVars == <<all_updates, normal_terminal, no_safe, worker_check_thread,
             worker_upgrade_thread, notification, updates, updates_nr,
             security_updates_nr, visible, icon, menu, checks, upgrades, idle,
             timer, main, popup, capacity>>
parseVars == <<p_lines, p_pc, p_result, p_total, p_security>>
upgradeVars == <<u_pc, u_normal, u_packages, u_nosafe, u_command>>
pureVars == <<parseVars, upgradeVars>>
vars == <<appVars, pureVars>>

None == "None"
Nothing == <<>>
Some(x) == <<x>>
The(o) == o[1]
NoThread == 0

\* ------------------------------------------------------------------ bounds
MaxWorkers == 2     \* worker threads started in one run, the startup check included
MaxLines == 2       \* lines of listing output given to one dnf_check_updates call
MaxPackages == 2    \* names in the package list given to one dnf_upgrade call

\* ------------------------------------------------------------- str methods
Char(s, i) == SubSeq(s, i, i)

\* a in s
Contains(s, a) == \E i \in 1..(Len(s) - Len(a) + 1) : SubSeq(s, i, i + Len(a) - 1) = a

\* s.split(c) for a one-character separator c: empty pieces are kept
RECURSIVE SplitOn(_, _)
SplitOn(s, c) ==
    IF \A i \in 1..Len(s) : Char(s, i) # c
    THEN <<s>>
    ELSE LET i == CHOOSE k \in 1..Len(s) :
                     Char(s, k) = c /\ \A j \in 1..(k - 1) : Char(s, j) # c
         IN  <<SubSeq(s, 1, i - 1)>> \o SplitOn(SubSeq(s, i + 1, Len(s)), c)

Whitespace == {" ", "\t", "\r"}

\* s.split(): runs of whitespace separate, no empty pieces
RECURSIVE SplitWs(_)
SplitWs(s) ==
    IF s = "" THEN <<>>
    ELSE IF Char(s, 1) \in Whitespace THEN SplitWs(SubSeq(s, 2, Len(s)))
    ELSE LET ends == {k \in 1..Len(s) : \A j \in 1..k : Char(s, j) \notin Whitespace}
             n == CHOOSE k \in ends : \A m \in ends : m <= k
         IN  <<SubSeq(s, 1, n)>> \o SplitWs(SubSeq(s, n + 1, Len(s)))

\* sep.join(parts)
RECURSIVE Join(_, _)
Join(parts, sep) ==
    IF parts = <<>> THEN ""
    ELSE IF Len(parts) = 1 THEN parts[1]
    ELSE parts[1] \o sep \o Join(Tail(parts), sep)

\* parts[:-1]: only the release is dropped
DropLastOne(parts) == IF Len(parts) <= 1 THEN <<>> ELSE SubSeq(parts, 1, Len(parts) - 1)

\* parts[:-2]
DropLastTwo(parts) == IF Len(parts) <= 2 THEN <<>> ELSE SubSeq(parts, 1, Len(parts) - 2)

\* parts[1:]
DropFirst(parts) == IF parts = <<>> THEN <<>> ELSE Tail(parts)

\* ------------------------------------------------------- module constants
COMMAND_DNF_UPGRADE == "sudo dnf upgrade"
COMMAND_TERMINAL_PREFIX == "xfce4-terminal --maximize -x "
COMMAND_DROPDOWN_PREFIX == "xfce4-terminal --tab --title Update --drop-down -x "

\* BASH_COMMAND.format(safe_wrapper=w, dnf=d)
BASH_COMMAND(w, d) ==
    w \o " bash -c 'echo " \o d \o "; " \o d \o "; read -p \"Press ENTER to close window\"'"
COMMAND_TERMINAL(w, d) == COMMAND_TERMINAL_PREFIX \o BASH_COMMAND(w, d)
COMMAND_DROPDOWN(w, d) == COMMAND_DROPDOWN_PREFIX \o BASH_COMMAND(w, d)

\* ------------------------------------------------------- dnf_check_updates
Keys == {"bugfix", "enhancement", "security"}

\* updates = {'bugfix': [], 'enhancement': [], 'security': []}
EmptyUpdates == [bugfix |-> <<>>, enhancement |-> <<>>, security |-> <<>>]

\* The outcome of a call: the dict it returns, or the exception it raises
Returned(u) == [exc |-> "none", updates |-> Some(u)]
Raised(e) == [exc |-> e, updates |-> Nothing]

\* package_name = '-'.join(package.split('-')[:-2])
PackageName(package) == Join(DropLastTwo(SplitOn(package, "-")), "-")

\* line.split()[1:], the sequence unpacked into (update_type, package)
LineFields(line) == DropFirst(SplitWs(line))

\* One pass of the loop body on `line`; r is the call's outcome so far.  An
\* exception ends the call: the lines after it are not looked at.
ScanLine(r, line) ==
    IF r.exc # "none" THEN r
    ELSE IF ~ \E a \in Keys : Contains(line, a) THEN r
    ELSE LET rest == LineFields(line)
         IN  IF Len(rest) # 2 THEN Raised("ValueError")
             ELSE LET update_type == rest[1]
                      package_name == PackageName(rest[2])
                  IN  IF update_type \notin Keys THEN Raised("KeyError")
                      ELSE Returned([The(r.updates) EXCEPT
                                        ![update_type] = Append(@, package_name)])

RECURSIVE ScanLines(_, _)
ScanLines(r, lines) ==
    IF lines = <<>> THEN r ELSE ScanLines(ScanLine(r, Head(lines)), Tail(lines))

\* dnf_check_updates() on the bytes the listing command wrote to its stdout
dnf_check_updates(stdout) == ScanLines(Returned(EmptyUpdates), SplitOn(stdout, "\n"))

\* sum(len(self.updates[update_type]) for update_type in self.updates)
CountAll(u) == Len(u["bugfix"]) + Len(u["enhancement"]) + Len(u["security"])

\* len(self.updates['security'])
CountSecurity(u) == Len(u["security"])

\* ------------------------------------------------ listing lines under test
\* Lines dnf can write, each with what it is: kind "wellformed" (advisory id,
\* category, name-version-release), "malformed" (a category keyword occurs in
\* the line but the fields are not those three) or "other" (no keyword).
LineCatalogue == <<
    [text |-> "FEDORA-2019-1 security curl-7.61.1-1.fc30",
     kind |-> "wellformed", type |-> "security", name |-> "curl"],
    [text |-> "FEDORA-2019-2 bugfix vim-8.1-1.fc30",
     kind |-> "wellformed", type |-> "bugfix", name |-> "vim"],
    [text |-> "FEDORA-2019-3 enhancement gtk3-devel-3.24.1-1.fc30",
     kind |-> "wellformed", type |-> "enhancement", name |-> "gtk3-devel"],
    [text |-> "security curl-7.61.1-1.fc30",
     kind |-> "malformed", type |-> None, name |-> None],
    [text |-> "bugfix vim-8.1-1.fc30",
     kind |-> "malformed", type |-> None, name |-> None],
    [text |-> "FEDORA-2019-4 security curl-7.61.1-1.fc30 x86_64",
     kind |-> "malformed", type |-> None, name |-> None],
    [text |-> "FEDORA-2019-5 Important/Sec. security-tools-1.0-1.fc30",
     kind |-> "malformed", type |-> None, name |-> None],
    [text |-> "Last metadata expiration check: 0:10:00 ago",
     kind |-> "other", type |-> None, name |-> None],
    [text |-> "", kind |-> "other", type |-> None, name |-> None] >>

LineIds == 1..Len(LineCatalogue)
LineSeqs == UNION {[1..n -> LineIds] : n \in 0..MaxLines}
TextOf(ids) == Join([k \in 1..Len(ids) |-> LineCatalogue[ids[k]].text], "\n")

\* ------------------------------------------------- safe_wrapper, dnf_upgrade
\* safe_wrapper() looking for tmux first
safe_wrapper_TmuxFirst(screen, tmux) ==
    IF tmux THEN "tmux new" ELSE IF screen THEN "screen" ELSE ""

\* safe_wrapper(); screen and tmux are the exit status 0 of the two
\* `command -v` probes
safe_wrapper(screen, tmux) ==
    IF screen THEN "screen" ELSE IF tmux THEN "tmux new" ELSE ""

\* The exit statuses of the `command -v` calls one safe_wrapper() makes, in
\* order: that of screen and, when screen is not found, that of tmux
Probes(screen, tmux) ==
    IF screen THEN <<0>> ELSE IF tmux THEN <<1, 0>> ELSE <<1, 1>>

\* no external command was run
NoProbes == <<>>

\* COMMAND_DNF_UPGRADE + ' '.join(packages): the space after the command is lost
UpgradeCommand_NoSeparator(packages) ==
    IF packages = Nothing THEN COMMAND_DNF_UPGRADE
    ELSE COMMAND_DNF_UPGRADE \o Join(The(packages), " ")

\* COMMAND_DNF_UPGRADE, or COMMAND_DNF_UPGRADE + ' ' + ' '.join(packages)
UpgradeCommand(packages) ==
    IF packages = Nothing THEN COMMAND_DNF_UPGRADE
    ELSE COMMAND_DNF_UPGRADE \o " " \o Join(The(packages), " ")

\* the wrapper dnf_upgrade uses (update_checker.py:103-106)
WrapperFor(nosafe, screen, tmux) == IF nosafe THEN "" ELSE safe_wrapper(screen, tmux)

\* concrete_command of dnf_upgrade(normal, packages, nosafe), the string given
\* to call(..., shell=True)
dnf_upgrade(normal, packages, nosafe, screen, tmux) ==
    LET wrapper == WrapperFor(nosafe, screen, tmux)
    IN  IF normal THEN COMMAND_TERMINAL(wrapper, UpgradeCommand(packages))
        ELSE COMMAND_DROPDOWN(wrapper, UpgradeCommand(packages))

\* ------------------------------------------------------------ Application
\* What the listing command can write while the application runs: nothing
\* (also what a failing command leaves), a security and a bugfix update, a
\* bugfix update alone, and two lines without the advisory id.
AppListings == {<<>>, <<1, 2>>, <<2>>, <<4, 5>>}

\* dnf_check_updates() for each of them
AppOutcome == [ids \in AppListings |-> dnf_check_updates(TextOf(ids))]

\* Thread(target=self.worker_check): pc is the line the worker is at, given
\* the lines the listing command wrote for it (Nothing until it has run),
\* total the value of self.updates_nr it holds between the two operands of
\* line 149 (-1 otherwise)
NewCheck == [pc |-> "query", given |-> Nothing, total |-> -1]

\* Thread(target=self.worker_upgrade, args=[all_packages]); packages and
\* command are the arguments of dnf_upgrade and of call() while it runs,
\* probes the exit statuses of the `command -v` calls dnf_upgrade made
NewUpgrade(all) == [pc |-> "start", all_packages |-> all, packages |-> Nothing,
                    command |-> None, probes |-> NoProbes]

Finished(th) == th.pc \in {"done", "raised"}

\* (self.updates_nr > 0 and self.all_updates) or self.security_updates_nr > 0
FirstDisjunct(total, all) == total > 0 /\ all
SecondDisjunct(security) == security > 0

\* ---- Application.__init__ followed by Gtk.main()
ParseIdle ==
    /\ p_lines = <<>> /\ p_pc = "idle" /\ p_result = Raised(None)
    /\ p_total = 0 /\ p_security = 0

Constructed(all, normal, nosafe) ==
    /\ all_updates = all
    /\ normal_terminal = normal
    /\ no_safe = nosafe
    /\ notification = Nothing
    /\ updates = Nothing
    /\ updates_nr = 0
    /\ security_updates_nr = 0
    /\ visible = FALSE
    /\ icon = None
    /\ menu = Nothing
    /\ worker_upgrade_thread = NoThread
    /\ upgrades = <<>>
    \* self.on_timer(): the first check starts at once
    /\ checks = <<NewCheck>>
    /\ worker_check_thread = 1
    \* GLib.timeout_add_seconds(self.interval * 3600, self.on_timer)
    /\ timer = TRUE
    /\ idle = <<>>
    /\ main = "running"
    /\ popup = Nothing

\* a run that may start MaxWorkers worker threads
Bounded == capacity = MaxWorkers

UpgradeIdle ==
    /\ u_pc = "idle" /\ u_normal = FALSE /\ u_packages = Nothing
    /\ u_nosafe = FALSE /\ u_command = None

Init ==
    /\ \E all \in BOOLEAN, normal \in BOOLEAN, nosafe \in BOOLEAN :
         Constructed(all, normal, nosafe)
    /\ Bounded
    /\ ParseIdle
    /\ UpgradeIdle

\* on_timer returning False, which removes the timeout source
OnTimerReturn_False == FALSE

\* ---- on_timer: the timeout source calls it on the main loop
OnTimerReturn == TRUE

OnTimer ==
    /\ main = "running" /\ timer
    /\ Len(checks) + Len(upgrades) < capacity
    /\ checks' = Append(checks, NewCheck)
    /\ worker_check_thread' = Len(checks) + 1
    /\ timer' = OnTimerReturn     \* the source stays installed while on_timer returns True
    /\ UNCHANGED <<all_updates, normal_terminal, no_safe, worker_upgrade_thread,
                   notification, updates, updates_nr, security_updates_nr, visible,
                   icon, menu, upgrades, idle, main, popup, capacity, pureVars>>

\* ---- worker_check, one step per shared-field access
workerFrame == <<all_updates, normal_terminal, no_safe, worker_check_thread,
                 worker_upgrade_thread, notification, visible, icon, menu, timer,
                 main, popup, capacity, pureVars>>

\* worker_check that starts another check when its query raises
CheckQuery_Retry(i) ==
    /\ checks[i].pc = "query"
    /\ \E ids \in AppListings :
         LET r == AppOutcome[ids]
         IN  IF r.exc = "none"
             THEN /\ updates' = r.updates
                  /\ checks' = [checks EXCEPT ![i].pc = "count", ![i].given = Some(ids)]
             ELSE /\ updates' = updates
                  /\ checks' =
                       LET ended == [checks EXCEPT ![i].pc = "raised",
                                                   ![i].given = Some(ids)]
                       IN  IF Len(checks) + Len(upgrades) < capacity
                           THEN Append(ended, NewCheck) ELSE ended
    /\ UNCHANGED <<workerFrame, updates_nr, security_updates_nr, upgrades, idle>>

\* line 146: the listing command runs and self.updates is assigned, or
\* dnf_check_updates raises and the thread ends
CheckQuery(i) ==
    /\ checks[i].pc = "query"
    /\ \E ids \in AppListings :
         LET r == AppOutcome[ids]
         IN  IF r.exc = "none"
             THEN /\ updates' = r.updates
                  /\ checks' = [checks EXCEPT ![i].pc = "count", ![i].given = Some(ids)]
             ELSE /\ updates' = updates
                  /\ checks' = [checks EXCEPT ![i].pc = "raised", ![i].given = Some(ids)]
    /\ UNCHANGED <<workerFrame, updates_nr, security_updates_nr, upgrades, idle>>

\* line 147
CheckCount(i) ==
    /\ checks[i].pc = "count"
    /\ updates_nr' = CountAll(The(updates))
    /\ checks' = [checks EXCEPT ![i].pc = "sec"]
    /\ UNCHANGED <<workerFrame, updates, security_updates_nr, upgrades, idle>>

\* line 148
CheckSecurity(i) ==
    /\ checks[i].pc = "sec"
    /\ security_updates_nr' = CountSecurity(The(updates))
    /\ checks' = [checks EXCEPT ![i].pc = "eval"]
    /\ UNCHANGED <<workerFrame, updates, updates_nr, upgrades, idle>>

\* GLib.idle_add(cb) by worker i; total and security are the values of
\* self.updates_nr and self.security_updates_nr its line 149 decided on
Post(i, cb, total, security) ==
    idle' = Append(idle, [cb |-> cb, by |-> i, total |-> total, security |-> security])

\* line 149, left operand of `or`: when it is true the right operand is not
\* evaluated and found_updates is posted (line 150)
CheckEval(i) ==
    /\ checks[i].pc = "eval"
    /\ IF FirstDisjunct(updates_nr, all_updates)
       THEN /\ Post(i, "found_updates", updates_nr, security_updates_nr)
            /\ checks' = [checks EXCEPT ![i].pc = "done"]
       ELSE /\ idle' = idle
            /\ checks' = [checks EXCEPT ![i].pc = "eval2", ![i].total = updates_nr]
    /\ UNCHANGED <<workerFrame, updates, updates_nr, security_updates_nr, upgrades>>

\* line 149, right operand of `or`, then line 150 or 152
CheckPost(i) ==
    /\ checks[i].pc = "eval2"
    /\ LET cb == IF SecondDisjunct(security_updates_nr)
                 THEN "found_updates" ELSE "no_updates"
       IN  /\ Post(i, cb, checks[i].total, security_updates_nr)
           /\ checks' = [checks EXCEPT ![i].pc = "done", ![i].total = -1]
    /\ UNCHANGED <<workerFrame, updates, updates_nr, security_updates_nr, upgrades>>

\* ---- worker_upgrade
\* lines 158-161 and dnf_upgrade up to the call: the arguments are read (a
\* security-scoped upgrade reads self.updates['security'], which raises
\* TypeError while self.updates is None), the multiplexers are probed, the
\* command is built and the terminal starts
UpgradeStart(j) ==
    /\ upgrades[j].pc = "start"
    /\ IF ~upgrades[j].all_packages /\ updates = Nothing
       THEN upgrades' = [upgrades EXCEPT ![j].pc = "raised"]
       ELSE \E screen \in BOOLEAN, tmux \in BOOLEAN :
              LET packages == IF upgrades[j].all_packages THEN Nothing
                              ELSE Some(The(updates)["security"])
              IN  upgrades' = [upgrades EXCEPT
                      ![j].pc = "call",
                      ![j].packages = packages,
                      ![j].probes = IF no_safe THEN NoProbes ELSE Probes(screen, tmux),
                      ![j].command = dnf_upgrade(normal_terminal, packages, no_safe,
                                                 screen, tmux)]
    /\ UNCHANGED <<workerFrame, updates, updates_nr, security_updates_nr, checks, idle>>

\* worker_upgrade that posts found_updates when the terminal has exited
UpgradeExit_Posts(j) ==
    /\ upgrades[j].pc = "call"
    /\ upgrades' = [upgrades EXCEPT ![j].pc = "done", ![j].packages = Nothing,
                                    ![j].command = None, ![j].probes = NoProbes]
    /\ idle' = Append(idle, [cb |-> "found_updates", by |-> 0, total |-> updates_nr,
                             security |-> security_updates_nr])
    /\ UNCHANGED <<workerFrame, updates, updates_nr, security_updates_nr, checks>>

\* line 112: call() returns when the terminal exits, whatever its status
UpgradeExit(j) ==
    /\ upgrades[j].pc = "call"
    /\ upgrades' = [upgrades EXCEPT ![j].pc = "done", ![j].packages = Nothing,
                                    ![j].command = None, ![j].probes = NoProbes]
    /\ UNCHANGED <<workerFrame, updates, updates_nr, security_updates_nr, checks, idle>>

\* ---- the callbacks dispatched by the main loop
configFrame == <<all_updates, normal_terminal, no_safe, timer, capacity, pureVars>>

\* build_menu: the items of the new Gtk.Menu
build_menu == Some([upgrade_security |-> security_updates_nr > 0,
                    upgrade |-> TRUE, close |-> TRUE])

\* the Notify.Notification of found_updates, with its actions, shown; body
\* tells whether it has the advisory body text, probes the exit statuses of
\* the `command -v` calls found_updates made for it
NewNotification(body, probes) ==
    Some([body |-> body, probes |-> probes,
          upgrade_security |-> security_updates_nr > 0,
          upgrade |-> TRUE, dismiss |-> TRUE, open |-> TRUE, invoked |-> None])

\* found_updates, lines 167-174: the icon file
found_updates_icon ==
    icon' = IF security_updates_nr > 0 THEN "red" ELSE "yellow"

\* found_updates without its build_menu() call
found_updates_menu_NoBuild ==
    /\ menu' = menu
    /\ visible' = TRUE

\* found_updates, lines 176-178: tooltip, menu, and the icon is shown
found_updates_menu ==
    /\ menu' = build_menu
    /\ visible' = TRUE

\* found_updates, lines 180-198: the notification
found_updates_notify(screen, tmux) ==
    notification' =
        IF no_safe THEN NewNotification(FALSE, NoProbes)
        ELSE NewNotification(safe_wrapper(screen, tmux) = "", Probes(screen, tmux))

\* no_updates
no_updates ==
    /\ visible' = FALSE
    /\ UNCHANGED <<icon, menu, notification>>

\* One dispatch of the oldest callback posted with GLib.idle_add: no_updates
\* as a whole, found_updates up to line 174.  The worker threads run on while
\* the main thread is inside found_updates.
RunIdle ==
    /\ main = "running" /\ idle # <<>>
    /\ idle' = Tail(idle)
    /\ IF Head(idle).cb = "found_updates"
       THEN /\ found_updates_icon
            /\ main' = "found_updates:176"
            /\ UNCHANGED <<menu, visible, notification>>
       ELSE /\ no_updates
            /\ main' = main
    /\ UNCHANGED <<configFrame, worker_check_thread, worker_upgrade_thread, updates,
                   updates_nr, security_updates_nr, checks, upgrades, popup>>

\* found_updates goes on: lines 176-178
FoundMenu ==
    /\ main = "found_updates:176"
    /\ found_updates_menu
    /\ main' = "found_updates:180"
    /\ UNCHANGED <<configFrame, worker_check_thread, worker_upgrade_thread, updates,
                   updates_nr, security_updates_nr, checks, upgrades, popup, idle,
                   icon, notification>>

\* found_updates ends: lines 180-198, safe_wrapper() called on the main thread
FoundNotify ==
    /\ main = "found_updates:180"
    /\ \E screen \in BOOLEAN, tmux \in BOOLEAN : found_updates_notify(screen, tmux)
    /\ main' = "running"
    /\ UNCHANGED <<configFrame, worker_check_thread, worker_upgrade_thread, updates,
                   updates_nr, security_updates_nr, checks, upgrades, popup, idle,
                   icon, menu, visible>>

\* upgrade() that drops its argument: every worker upgrades all packages
upgrade_AlwaysAll(all) ==
    /\ visible' = FALSE
    /\ upgrades' = Append(upgrades, NewUpgrade(TRUE))
    /\ worker_upgrade_thread' = Len(upgrades) + 1

\* upgrade(all_packages)
upgrade(all) ==
    /\ visible' = FALSE
    /\ upgrades' = Append(upgrades, NewUpgrade(all))
    /\ worker_upgrade_thread' = Len(upgrades) + 1

handlerFrame == <<configFrame, worker_check_thread, updates, updates_nr,
                  security_updates_nr, icon, menu, checks, idle>>

\* on_icon_click: 'activate' of the status icon, which is on screen
OnIconClick ==
    /\ main = "running" /\ visible
    /\ visible' = FALSE
    /\ UNCHANGED <<handlerFrame, worker_upgrade_thread, notification, upgrades, main,
                   popup>>

\* on_menu: 'popup-menu' of the status icon; self.menu.show_all() raises
\* AttributeError while self.menu is None
OnMenu ==
    /\ main = "running" /\ visible
    /\ popup' = menu
    /\ UNCHANGED <<handlerFrame, worker_upgrade_thread, notification, upgrades, main,
                   visible>>

\* the popped-up menu is left without choosing an item
MenuCancel ==
    /\ main = "running" /\ popup # Nothing
    /\ popup' = Nothing
    /\ UNCHANGED <<handlerFrame, worker_upgrade_thread, notification, upgrades, main,
                   visible>>

\* on_menu_upgrade
OnMenuUpgrade ==
    /\ main = "running" /\ popup # Nothing /\ The(popup).upgrade
    /\ Len(checks) + Len(upgrades) < capacity
    /\ upgrade(TRUE)
    /\ popup' = Nothing
    /\ UNCHANGED <<handlerFrame, notification, main>>

\* on_menu_upgrade_security
OnMenuUpgradeSecurity ==
    /\ main = "running" /\ popup # Nothing /\ The(popup).upgrade_security
    /\ Len(checks) + Len(upgrades) < capacity
    /\ upgrade(FALSE)
    /\ popup' = Nothing
    /\ UNCHANGED <<handlerFrame, notification, main>>

\* thread.join() of on_menu_close returns for this reference
Joined(ref, threads) == IF ref = NoThread THEN TRUE ELSE Finished(threads[ref])

\* on_menu_close up to its joins: the main thread blocks in thread.join()
OnMenuClose ==
    /\ main = "running" /\ popup # Nothing /\ The(popup).close
    /\ main' = "joining"
    /\ popup' = Nothing
    /\ UNCHANGED <<handlerFrame, worker_upgrade_thread, notification, upgrades, visible>>

\* on_menu_close after its joins: Gtk.main_quit()
MainQuit ==
    /\ main = "joining"
    /\ Joined(worker_check_thread, checks)
    /\ Joined(worker_upgrade_thread, upgrades)
    /\ main' = "quit"
    /\ UNCHANGED <<handlerFrame, worker_upgrade_thread, notification, upgrades, visible,
                   popup>>

\* The notification server closes a notification once one of its actions is
\* invoked (action is its key), when it expires and when the user closes it.
Closed(n, action) == Some([The(n) EXCEPT !.open = FALSE, !.invoked = action])
CanInvoke(n) == n # Nothing /\ The(n).open

\* on_notification_upgrade
OnNotificationUpgrade ==
    /\ main = "running" /\ CanInvoke(notification) /\ The(notification).upgrade
    /\ Len(checks) + Len(upgrades) < capacity
    /\ upgrade(TRUE)
    /\ notification' = Closed(notification, "clicked_upgrade")
    /\ UNCHANGED <<handlerFrame, main, popup>>

\* on_notification_upgrade_security
OnNotificationUpgradeSecurity ==
    /\ main = "running" /\ CanInvoke(notification)
    /\ The(notification).upgrade_security
    /\ Len(checks) + Len(upgrades) < capacity
    /\ upgrade(FALSE)
    /\ notification' = Closed(notification, "clicked_upgrade_security")
    /\ UNCHANGED <<handlerFrame, main, popup>>

\* on_notification_dismiss without its set_visible(False)
OnNotificationDismiss_KeepsIcon ==
    /\ main = "running" /\ CanInvoke(notification) /\ The(notification).dismiss
    /\ notification' = Closed(notification, "clicked_dismiss")
    /\ UNCHANGED <<handlerFrame, worker_upgrade_thread, upgrades, main, popup, visible>>

\* on_notification_dismiss
OnNotificationDismiss ==
    /\ main = "running" /\ CanInvoke(notification) /\ The(notification).dismiss
    /\ visible' = FALSE
    /\ notification' = Closed(notification, "clicked_dismiss")  \* and self.notification.close()
    /\ UNCHANGED <<handlerFrame, worker_upgrade_thread, upgrades, main, popup>>

\* the notification expires or is closed by the user
NotificationClosed ==
    /\ main = "running" /\ CanInvoke(notification)
    /\ notification' = Closed(notification, None)
    /\ UNCHANGED <<handlerFrame, worker_upgrade_thread, upgrades, main, popup, visible>>

Next ==
    \/ OnTimer
    \/ \E i \in 1..Len(checks) : CheckQuery(i)
    \/ \E i \in 1..Len(checks) : CheckCount(i)
    \/ \E i \in 1..Len(checks) : CheckSecurity(i)
    \/ \E i \in 1..Len(checks) : CheckEval(i)
    \/ \E i \in 1..Len(checks) : CheckPost(i)
    \/ \E j \in 1..Len(upgrades) : UpgradeStart(j)
    \/ \E j \in 1..Len(upgrades) : UpgradeExit(j)
    \/ RunIdle
    \/ FoundMenu
    \/ FoundNotify
    \/ OnIconClick
    \/ OnMenu
    \/ MenuCancel
    \/ OnMenuUpgrade
    \/ OnMenuUpgradeSecurity
    \/ OnMenuClose
    \/ MainQuit
    \/ OnNotificationUpgrade
    \/ OnNotificationUpgradeSecurity
    \/ OnNotificationDismiss
    \/ NotificationClosed

Spec == Init /\ [][Next]_vars

\* ------------------------- the application, one worker thread further
\* The application started with --no-safe-update alone, in a run that may
\* start one worker thread more: two checks and an upgrade, or a check and
\* two upgrades.
OverlapInit ==
    /\ Constructed(FALSE, FALSE, TRUE)
    /\ capacity = MaxWorkers + 1
    /\ ParseIdle
    /\ UpgradeIdle

OverlapSpec == OverlapInit /\ [][Next]_vars

\* ------------------------------------- one call of the update query, alone
\* The listing command wrote the lines p_lines; the query is called on them
\* and, when it returns, the counts of worker_check are taken.
ParseInit ==
    /\ Constructed(FALSE, FALSE, FALSE)
    /\ Bounded
    /\ p_lines \in LineSeqs
    /\ p_pc = "call"
    /\ p_result = Raised(None)
    /\ p_total = 0
    /\ p_security = 0
    /\ UpgradeIdle

\* self.updates = dnf_check_updates()
ParseCall ==
    /\ p_pc = "call"
    /\ p_result' = dnf_check_updates(TextOf(p_lines))
    /\ p_pc' = IF p_result'.exc = "none" THEN "count" ELSE "raised"
    /\ UNCHANGED <<appVars, upgradeVars, p_lines, p_total, p_security>>

\* lines 147-148
ParseCount ==
    /\ p_pc = "count"
    /\ p_total' = CountAll(The(p_result.updates))
    /\ p_security' = CountSecurity(The(p_result.updates))
    /\ p_pc' = "done"
    /\ UNCHANGED <<appVars, upgradeVars, p_lines, p_result>>

ParseNext == ParseCall \/ ParseCount

ParseSpec == ParseInit /\ [][ParseNext]_vars

\* ------------------------------------------- one call of dnf_upgrade, alone
PackageNames == {"curl", "vim", "gtk3-devel"}
PackageLists == UNION {[1..n -> PackageNames] : n \in 0..MaxPackages}

\* dnf_upgrade(normal_terminal, packages, no_safe) is about to be called,
\* with a package list or with packages=None
UpgradeInit ==
    /\ Constructed(FALSE, FALSE, FALSE)
    /\ Bounded
    /\ ParseIdle
    /\ u_pc = "call"
    /\ u_normal \in BOOLEAN
    /\ u_nosafe \in BOOLEAN
    /\ u_packages \in {Nothing} \cup {Some(P) : P \in PackageLists}
    /\ u_command = None

\* the call, up to call(concrete_command, shell=True)
UpgradeCall ==
    /\ u_pc = "call"
    /\ \E screen \in BOOLEAN, tmux \in BOOLEAN :
         u_command' = dnf_upgrade(u_normal, u_packages, u_nosafe, screen, tmux)
    /\ u_pc' = "called"
    /\ UNCHANGED <<appVars, parseVars, u_normal, u_packages, u_nosafe>>

UpgradeNext == UpgradeCall

UpgradeSpec == UpgradeInit /\ [][UpgradeNext]_vars

\* ======================================================================
\* Properties
\* ======================================================================

\* ---- what the lines under test are, read off LineCatalogue
WellFormedOf(ids, type) ==
    SelectSeq(ids, LAMBDA k : /\ LineCatalogue[k].kind = "wellformed"
                              /\ LineCatalogue[k].type = type)
NamesOf(ids, type) ==
    [k \in 1..Len(WellFormedOf(ids, type)) |-> LineCatalogue[WellFormedOf(ids, type)[k]].name]
ExpectedUpdates(ids) ==
    [bugfix |-> NamesOf(ids, "bugfix"),
     enhancement |-> NamesOf(ids, "enhancement"),
     security |-> NamesOf(ids, "security")]
ExpectedTotal(ids) ==
    Len(NamesOf(ids, "bugfix")) + Len(NamesOf(ids, "enhancement"))
        + Len(NamesOf(ids, "security"))

\* C1: every callback a check worker posts is found_updates exactly when its
\* security count is positive or its total count is positive with all-updates
\* mode on, and no_updates otherwise: a positive security count gives
\* found_updates whatever the flag, a total count of 0 gives no_updates, and a
\* security count of 0 with a positive total and the flag off gives
\* no_updates.  The counts are the values of self.updates_nr and
\* self.security_updates_nr the worker decided on.
C1_PostDecision ==
    \A k \in 1..Len(idle) :
        LET e == idle[k]
        IN  /\ e.cb \in {"found_updates", "no_updates"}
            /\ (e.cb = "found_updates")
                 <=> (e.security > 0 \/ (e.total > 0 /\ all_updates))
            /\ e.security > 0 => e.cb = "found_updates"
            /\ e.total = 0 => e.cb = "no_updates"
            /\ (e.security = 0 /\ e.total > 0 /\ ~all_updates) => e.cb = "no_updates"

\* C2: whenever on_notification_dismiss runs, the status icon is not visible
\* afterwards and no upgrade worker thread has been created or referenced.
C2_DismissHidesAndSpawnsNothing ==
    [][OnNotificationDismiss =>
         /\ ~visible'
         /\ upgrades' = upgrades
         /\ worker_upgrade_thread' = worker_upgrade_thread]_vars

\* the dismiss action of a notification has been invoked
C2_Witness ==
    /\ notification # Nothing
    /\ The(notification).invoked = "clicked_dismiss"
    /\ ~visible

\* C3: a call of the update query never raises, whatever malformed lines its
\* input holds, and returns the packages of the well-formed lines alone.
C3_MalformedLinesExcluded ==
    p_pc \in {"count", "done", "raised"} =>
        /\ p_result.exc = "none"
        /\ p_result.updates = Some(ExpectedUpdates(p_lines))

\* C4: a call of the update query on an output with N well-formed lines
\* returns N packages in all, as many per category as there are lines of that
\* category, each list holding the package names in input order.
C4_CountsMatchWellFormedLines ==
    p_pc \in {"done", "raised"} =>
        /\ p_pc = "done"
        /\ p_total = ExpectedTotal(p_lines)
        /\ \A t \in Keys :
             /\ Len(The(p_result.updates)[t]) = Len(WellFormedOf(p_lines, t))
             /\ The(p_result.updates)[t] = NamesOf(p_lines, t)

RECURSIVE SpaceSeparated(_)
SpaceSeparated(P) ==
    IF P = <<>> THEN ""
    ELSE IF Len(P) = 1 THEN P[1]
    ELSE SpaceSeparated(SubSeq(P, 1, Len(P) - 1)) \o " " \o P[Len(P)]

ExpectedUpgrade(packages) ==
    IF packages = Nothing THEN "sudo dnf upgrade"
    ELSE "sudo dnf upgrade " \o SpaceSeparated(The(packages))

ExpectedTerminal(normal, wrapper, cmd) ==
    (IF normal THEN "xfce4-terminal --maximize -x "
     ELSE "xfce4-terminal --tab --title Update --drop-down -x ")
        \o wrapper \o " bash -c 'echo " \o cmd \o "; " \o cmd
        \o "; read -p \"Press ENTER to close window\"'"

\* C6: the command dnf_upgrade spawns is the terminal command around
\* `sudo dnf upgrade`, a space and the names of the package list separated
\* by single spaces (`sudo dnf upgrade curl` for ["curl"]), and around
\* `sudo dnf upgrade` alone when packages is None.
C6_UpgradeCommandExact ==
    u_pc = "called" =>
        /\ \E wrapper \in {"", "screen", "tmux new"} :
             u_command = ExpectedTerminal(u_normal, wrapper, ExpectedUpgrade(u_packages))
        /\ (u_packages = Some(<<"curl">>) /\ ~u_normal /\ u_nosafe) =>
             u_command = "xfce4-terminal --tab --title Update --drop-down -x  bash -c 'echo sudo dnf upgrade curl; sudo dnf upgrade curl; read -p \"Press ENTER to close window\"'"
        /\ (u_packages = Nothing /\ u_normal /\ u_nosafe) =>
             u_command = "xfce4-terminal --maximize -x  bash -c 'echo sudo dnf upgrade; sudo dnf upgrade; read -p \"Press ENTER to close window\"'"

\* dnf_upgrade has been called with the package list ["curl"]
C6_Witness ==
    /\ u_pc = "called"
    /\ u_packages = Some(<<"curl">>)
    /\ u_command # None

\* ---- an upgrade handler has hidden the icon and started one worker of scope all
Spawned(all) ==
    /\ ~visible'
    /\ Len(upgrades') = Len(upgrades) + 1
    /\ SubSeq(upgrades', 1, Len(upgrades)) = upgrades
    /\ upgrades'[Len(upgrades')].pc = "start"
    /\ upgrades'[Len(upgrades')].all_packages = all
    /\ worker_upgrade_thread' = Len(upgrades')

\* C7: each upgrade handler hides the icon and starts exactly one upgrade
\* worker, of scope all for the upgrade-all actions and of scope security for
\* the upgrade-security actions; a worker of scope all calls dnf_upgrade with
\* no package list, a worker of scope security with the security list of
\* self.updates.
C7_UpgradeScopeMatchesAction ==
    /\ [][(OnMenuUpgrade \/ OnNotificationUpgrade) => Spawned(TRUE)]_vars
    /\ [][(OnMenuUpgradeSecurity \/ OnNotificationUpgradeSecurity) => Spawned(FALSE)]_vars
    /\ [][\A j \in 1..Len(upgrades) :
            (upgrades[j].pc = "start" /\ upgrades'[j].pc = "call") =>
                upgrades'[j].packages =
                    IF upgrades[j].all_packages THEN Nothing
                    ELSE Some(The(updates)["security"])]_vars

\* a security-scoped worker is running the upgrade of the security list,
\* the icon hidden
C7_Witness ==
    /\ ~visible
    /\ \E j \in 1..Len(upgrades) :
         /\ upgrades[j].pc = "call"
         /\ ~upgrades[j].all_packages
         /\ upgrades[j].packages = Some(<<"curl">>)

\* C8: once the main loop has been quit, no check worker and no upgrade
\* worker is still running.
C8_QuitOnlyWhenNoWorkerRuns ==
    main = "quit" =>
        /\ \A i \in 1..Len(checks) : Finished(checks[i])
        /\ \A j \in 1..Len(upgrades) : Finished(upgrades[j])

\* the listing output of a failed check: no well-formed line in it
Degraded(ids) == ExpectedTotal(ids) = 0

\* C9: a check worker whose listing output is empty or malformed does not
\* die: it does not raise, and the callback it posts is no_updates.
C9_FailedCheckDegrades ==
    \A i \in 1..Len(checks) :
        (checks[i].given # Nothing /\ Degraded(The(checks[i].given))) =>
            /\ checks[i].pc # "raised"
            /\ \A k \in 1..Len(idle) :
                 (idle[k].by = i /\ Len(checks) = 1) => idle[k].cb = "no_updates"

\* C10: a check worker exists from startup on, every run of on_timer starts
\* one more, the timeout source of on_timer is never removed, and on_timer
\* can run in every state in which the main loop is running.
C10_TimerAlwaysStartsChecks ==
    /\ [](/\ timer
          /\ Len(checks) >= 1
          /\ worker_check_thread = Len(checks))
    /\ [][OnTimer => /\ Len(checks') = Len(checks) + 1
                     /\ checks'[Len(checks')].pc = "query"
                     /\ timer']_vars
    /\ []((main = "running" /\ Len(checks) + Len(upgrades) < capacity)
            => ENABLED OnTimer)

\* the timer has fired while the startup check was still in flight
C10_Witness ==
    /\ Len(checks) >= 2
    /\ checks[1].pc = "query"
    /\ checks[2].pc = "query"

\* ---- the worker threads that have been started and have not ended
RunningChecks == {i \in 1..Len(checks) : ~Finished(checks[i])}
RunningUpgrades == {j \in 1..Len(upgrades) : ~Finished(upgrades[j])}

\* C11: in every reachable state at most one check worker and at most one
\* upgrade worker is running: a timer fire during a check and an upgrade
\* action during an upgrade start no second worker.
C11_AtMostOneWorkerOfEachKind ==
    /\ Cardinality(RunningChecks) <= 1
    /\ Cardinality(RunningUpgrades) <= 1

\* ---- a worker thread that is inside an external command or about to run
\* one: the listing command of line 146, the probes and the terminal of
\* dnf_upgrade
CheckInCommand(ref) ==
    IF ref = NoThread THEN FALSE ELSE checks[ref].pc = "query"
UpgradeInCommand(ref) ==
    IF ref = NoThread THEN FALSE ELSE upgrades[ref].pc \in {"start", "call"}

\* C12: no callback of the main loop runs an external command or waits for
\* one to exit: found_updates makes no `command -v` probe for the
\* notification it builds, and the main thread is never blocked in a join on
\* a worker that is inside its external command.
C12_MainLoopNeverBlocksOnCommand ==
    /\ notification # Nothing => The(notification).probes = NoProbes
    /\ main = "joining" =>
          /\ ~CheckInCommand(worker_check_thread)
          /\ ~UpgradeInCommand(worker_upgrade_thread)

\* C13: whenever found_updates has run, the icon is red and the
\* upgrade-security action is in the notification and in the menu exactly
\* when the security count is positive, the icon is yellow and the action
\* in neither otherwise; the notification always has the upgrade-all and
\* dismiss actions.
C13_PresentationFollowsSecurityCount ==
    [][FoundNotify =>
         LET security == security_updates_nr > 0
         IN  /\ icon' = IF security THEN "red" ELSE "yellow"
             /\ The(menu').upgrade_security = security
             /\ The(notification').upgrade_security = security
             /\ The(notification').upgrade
             /\ The(notification').dismiss]_vars

\* ---- the wrapper C14 describes, from what the probes found: screen when
\* screen is found, else tmux when tmux is found, else none
ExpectedWrapper(probes) ==
    IF probes = <<0>> THEN "screen"
    ELSE IF probes = <<1, 0>> THEN "tmux new"
    ELSE ""

\* C14: the command of every running upgrade worker is wrapped as its own
\* probes found (screen first, then tmux, else no wrapper), and with no_safe
\* it has no wrapper and no probe was made; a notification has the advisory
\* body exactly when no_safe is off and its probes found neither screen nor
\* tmux, and with no_safe no probe was made for it.
C14_WrapperChosenAtCallTime ==
    /\ \A j \in 1..Len(upgrades) :
          upgrades[j].pc = "call" =>
             /\ upgrades[j].probes \in
                    (IF no_safe THEN {NoProbes} ELSE {<<0>>, <<1, 0>>, <<1, 1>>})
             /\ upgrades[j].command =
                    ExpectedTerminal(normal_terminal, ExpectedWrapper(upgrades[j].probes),
                                     ExpectedUpgrade(upgrades[j].packages))
    /\ notification # Nothing =>
          /\ The(notification).probes \in
                 (IF no_safe THEN {NoProbes} ELSE {<<0>>, <<1, 0>>, <<1, 1>>})
          /\ The(notification).body
                 <=> (~no_safe /\ The(notification).probes = <<1, 1>>)

\* the notification was built when neither multiplexer was found, and the
\* upgrade started from it runs under tmux, found when dnf_upgrade was called
C14_Witness ==
    /\ ~no_safe
    /\ notification # Nothing
    /\ The(notification).body
    /\ \E j \in 1..Len(upgrades) :
          /\ upgrades[j].pc = "call"
          /\ upgrades[j].probes = <<1, 0>>

\* ---- the handlers of the four upgrade actions
UpgradeAction ==
    \/ OnMenuUpgrade
    \/ OnMenuUpgradeSecurity
    \/ OnNotificationUpgrade
    \/ OnNotificationUpgradeSecurity

\* C15: nothing is retried: the check threads are the startup check and one
\* more per run of on_timer, created by no other step; an upgrade thread is
\* created only by one of the four upgrade actions; a thread that has ended,
\* by returning or by raising, is never started again.
C15_NoAutomaticRetry ==
    /\ [][checks' # checks /\ Len(checks') # Len(checks) => OnTimer]_vars
    /\ [][OnTimer => /\ Len(checks') = Len(checks) + 1
                     /\ SubSeq(checks', 1, Len(checks)) = checks]_vars
    /\ [][Len(upgrades') # Len(upgrades) => UpgradeAction]_vars
    /\ [][/\ \A i \in 1..Len(checks) : Finished(checks[i]) => checks'[i] = checks[i]
          /\ \A j \in 1..Len(upgrades) :
                Finished(upgrades[j]) => upgrades'[j] = upgrades[j]]_vars

\* the startup check has completed and its callback has run, the upgrade
\* chosen after it has ended, and no other thread has been started
C15_Witness ==
    /\ Len(checks) = 1
    /\ checks[1].pc = "done"
    /\ idle = <<>>
    /\ Len(upgrades) = 1
    /\ upgrades[1].pc = "done"

\* C16: a step of an upgrade worker, its end included, leaves the icon, its
\* visibility, the menu, the notification, self.updates and the two counts
\* as they are and posts nothing to the main loop; the icon becomes visible
\* only inside found_updates, and callbacks are posted only by check workers.
C16_UpgradeCompletionSurfacesNothing ==
    /\ [][(\E j \in 1..Len(upgrades) : UpgradeStart(j) \/ UpgradeExit(j)) =>
            UNCHANGED <<visible, icon, menu, notification, updates, updates_nr,
                        security_updates_nr, idle>>]_vars
    /\ [][(~visible /\ visible') => FoundMenu]_vars
    /\ [][Len(idle') > Len(idle) =>
            \E i \in 1..Len(checks) : CheckEval(i) \/ CheckPost(i)]_vars

\* an upgrade started while updates were shown has ended: the icon is still
\* hidden, the update set and the counts are those of the check
C16_Witness ==
    /\ \E j \in 1..Len(upgrades) : upgrades[j].pc = "done"
    /\ ~visible
    /\ updates # Nothing
    /\ updates_nr > 0

\* ---- the security lists of the checks whose query has returned one
OfferedSecurityLists ==
    {The(AppOutcome[The(checks[i].given)].updates)["security"] :
        i \in {k \in 1..Len(checks) :
                  /\ checks[k].given # Nothing
                  /\ AppOutcome[The(checks[k].given)].exc = "none"
                  /\ CountSecurity(The(AppOutcome[The(checks[k].given)].updates)) > 0}}

\* C17: the package list a security-scoped upgrade worker gives to
\* dnf_upgrade is not empty and is the security list of a check that
\* reported security updates, whatever timer fires and check completions
\* came between the offer and the upgrade.
C17_SecurityUpgradeKeepsItsScope ==
    \A j \in 1..Len(upgrades) :
        (upgrades[j].pc = "call" /\ ~upgrades[j].all_packages) =>
            /\ upgrades[j].packages # Some(<<>>)
            /\ \E L \in OfferedSecurityLists : upgrades[j].packages = Some(L)

\* ---- the dict the query of check worker i returned
OwnUpdates(i) == The(AppOutcome[The(checks[i].given)].updates)

\* C18: whenever the main loop starts found_updates, updates_nr is the
\* number of packages in self.updates, security_updates_nr the length of its
\* security list, and both are the counts of the dict returned to the check
\* worker that posted this callback.
C18_FoundUpdatesSeesItsOwnCounts ==
    [][(RunIdle /\ Head(idle).cb = "found_updates") =>
         /\ updates_nr = CountAll(The(updates))
         /\ security_updates_nr = CountSecurity(The(updates))
         /\ updates_nr = CountAll(OwnUpdates(Head(idle).by))
         /\ security_updates_nr = CountSecurity(OwnUpdates(Head(idle).by))]_vars

\* ---- the result of the listing `ids` qualifies as updates found
Qualifies(ids) ==
    /\ AppOutcome[ids].exc = "none"
    /\ \/ CountSecurity(The(AppOutcome[ids].updates)) > 0
       \/ CountAll(The(AppOutcome[ids].updates)) > 0 /\ all_updates

\* a callback of the main loop returns
CallbackEnds ==
    \/ RunIdle /\ Head(idle).cb = "no_updates"
    \/ FoundNotify

\* C19: when the last pending callback returns and every check started has
\* completed (none raised), the icon is visible exactly when the result of
\* the check started last qualifies as updates found.
C19_IndicatorFollowsLatestCheck ==
    [][(/\ CallbackEnds
        /\ idle' = <<>>
        /\ \A i \in 1..Len(checks) : checks[i].pc = "done") =>
           (visible' <=> Qualifies(The(checks[Len(checks)].given)))]_vars

\* C20: no handler meets an unset field: while the icon is visible or a menu
\* is popped up self.menu is set; once found_updates has returned
\* self.notification is set and it is never unset afterwards; while a
\* security-scoped upgrade worker exists self.updates is set, and no upgrade
\* worker has raised.
C20_NoUnsetFieldIsUsed ==
    /\ [](visible => menu # Nothing)
    /\ [](popup # Nothing => menu # Nothing)
    /\ []((menu # Nothing /\ main # "found_updates:180") => notification # Nothing)
    /\ [][notification # Nothing => notification' # Nothing]_vars
    /\ [](\A j \in 1..Len(upgrades) :
            /\ ~upgrades[j].all_packages => updates # Nothing
            /\ upgrades[j].pc # "raised")

\* the upgrade-security action of the notification has been invoked and its
\* worker is running the upgrade, a menu built and self.updates set
C20_Witness ==
    /\ notification # Nothing
    /\ The(notification).invoked = "clicked_upgrade_security"
    /\ menu # Nothing
    /\ updates # Nothing
    /\ \E j \in 1..Len(upgrades) :
          upgrades[j].pc = "call" /\ ~upgrades[j].all_packages

====
